---------------------------- MODULE Spec2Model ----------------------------
(***************************************************************************)
(* SmartCache (src/src/SmartCacheing/core/core.py): CacheItem,             *)
(* CacheItemFactory, Cache and CacheService, as a state machine.           *)
(*                                                                         *)
(* One process holds a CacheService (its Cache is Svc, its background      *)
(* thread is the cleanup task) and a second, bare Cache instance (Other).  *)
(* Caller threads call the public methods.  A method that is one critical  *)
(* section of the cache lock is one action; Cache.add, whose steps touch   *)
(* the process-wide CacheItemFactory.BASE_ID, and Cache.invalidate_expired,*)
(* whose scan runs outside the lock, are several.                          *)
(*                                                                         *)
(* Seven programs are checked, all made of the same actions:               *)
(*   Spec        callers of the CacheService and its cleanup thread;       *)
(*   SpecCache   callers of the bare Cache, every Cache method;            *)
(*   SpecIds     callers adding to both caches, which share BASE_ID;       *)
(*   SpecItem    callers of the expires_at setter of stored items;         *)
(*   SpecClock   callers of the service's last_operation_at setter;        *)
(*   SpecDefault callers adding to the service with the default lifetime;  *)
(*   SpecReuse   callers adding to both caches and removing from one.      *)
(* FairSpec is the service under fair scheduling, for liveness properties.  *)
(***************************************************************************)
EXTENDS Integers, Sequences, FiniteSets, TLC

(* ------------------------------ bounds -------------------------------- *)

\* the clock stops advancing at MaxTime
MaxTime == 2

\* add calls started in one behaviour, over all caches
MaxAdds == 4

\* add calls on one cache in one behaviour of Spec and SpecCache
MaxCacheAdds == 2

\* time_to_live arguments are 1..MaxTTL
MaxTTL == 2

\* CacheService(time_to_live=SweepInterval): the sleep of the cleanup loop
SweepInterval == 1

(* ----------------------------- constants ------------------------------ *)

\* CacheItemFactory.BASE_ID
BaseId == 10000

\* CacheService.add(value, time_to_live=300): the default of the argument
DefaultTTL == 300

Svc == "svc"
Other == "other"
Caches == {Svc, Other}

Callers == {"t1", "t2"}
NoThread == "none"

TTLs == 1..MaxTTL
\* the ids callers pass to get, remove and invalidate
CallIds == BaseId..(BaseId + MaxCacheAdds - 1)

\* Python values: None, str keys and int keys (equal only within one type)
None == [none |-> TRUE]
StrKey(s) == [type |-> "str", val |-> s]
IntKey(i) == [type |-> "int", int |-> i]
PyEq(a, b) == a = b

\* the datetimes callers pass to a setter
Times == 0..(MaxTime + MaxTTL)

\* the values callers store: the dict {"a": 1} and the int 42, which has no
\* __contains__
DictA == [hasContains |-> TRUE, keys |-> {StrKey("a")}]
Int42 == [hasContains |-> FALSE, keys |-> {}]
Values == {DictA, Int42}

\* the keys callers look up
StrKeys == {StrKey("a"), StrKey("b")}
LookupKeys == StrKeys \cup {IntKey(BaseId)}

VARIABLES
  now,               \* DateUtil.now()
  BASE_ID,           \* CacheItemFactory.BASE_ID
  storage,           \* Cache._storage of each cache: the dict, in insertion order
  lock,              \* Cache._lock of each cache: its owner
  pc,                \* where each caller thread is
  loc,               \* the locals of each caller thread inside Cache.add
  task_pc,           \* where the cleanup thread is
  task_loc,          \* the locals of the cleanup thread
  stop_event,        \* CacheService._stop_event
  last_operation_at, \* CacheService._last_operation_at
  last,              \* the step just taken: operation, arguments, result
  hist               \* what has happened so far (history; actions read it only
                     \* to bound the number of add calls)

vars == <<now, BASE_ID, storage, lock, pc, loc, task_pc, task_loc,
          stop_event, last_operation_at, last, hist>>

(* ----------------------------- CacheItem ------------------------------ *)

\* DateUtil.increment(amount, obj, what="seconds")
DateUtilIncrement(obj, amount) == obj + amount

\* CacheItem.__init__
NewCacheItem(id, time_to_live, value, t) ==
  [ id           |-> id,
    created_at   |-> t,
    expires_at   |-> DateUtilIncrement(t, time_to_live),
    time_to_live |-> time_to_live,
    value        |-> value ]

\* is_expired gone wrong: expired already at expires_at
IsExpiredAtDeadline(item, t) == t >= item.expires_at

\* CacheItem.is_expired, at time t
IsExpired(item, t) == t > item.expires_at

\* CacheItem.__contains__
ItemContains(item, key) ==
  IF ~item.value.hasContains
    THEN FALSE
    ELSE \E k \in item.value.keys : PyEq(k, key)

\* CacheItem.expires_at setter: `if self._expires_at < value` reads
\* self._logger, which a CacheItem does not have (AttributeError, expires_at
\* is left as it was); any other value is stored
ExpiresAtSetter(item, value) ==
  IF item.expires_at < value
    THEN [raised |-> TRUE, item |-> item]
    ELSE [raised |-> FALSE, item |-> [item EXCEPT !.expires_at = value]]

(* ------------------------ dict, insertion-ordered --------------------- *)

DictIndex(d, k) == CHOOSE i \in 1..Len(d) : d[i].key = k

\* k in d
DictHas(d, k) == \E i \in 1..Len(d) : d[i].key = k

\* d.get(k, None)
DictGet(d, k) == IF DictHas(d, k) THEN d[DictIndex(d, k)].item ELSE None

\* d[k] = item gone wrong: a key that is there is not replaced but added again
DictSetAppend(d, k, item) == Append(d, [key |-> k, item |-> item])

\* d[k] = item
DictSet(d, k, item) ==
  IF DictHas(d, k)
    THEN [d EXCEPT ![DictIndex(d, k)] = [key |-> k, item |-> item]]
    ELSE Append(d, [key |-> k, item |-> item])

\* d.pop(k, None) gone wrong: a missing key pops the first entry
DictPopFirst(d, k) ==
  LET i == IF DictHas(d, k) THEN DictIndex(d, k) ELSE 1
  IN  SubSeq(d, 1, i - 1) \o SubSeq(d, i + 1, Len(d))

\* d.pop(k, None): the dict afterwards
DictPop(d, k) ==
  IF DictHas(d, k)
    THEN LET i == DictIndex(d, k)
         IN  SubSeq(d, 1, i - 1) \o SubSeq(d, i + 1, Len(d))
    ELSE d

(* ------------------------------- Cache -------------------------------- *)

\* Cache.__contains__(key): a str key is never one of the int ids
CacheContains(c, key) ==
  /\ key.type = "int"
  /\ DictHas(storage[c], key.int)
  /\ ~IsExpired(DictGet(storage[c], key.int), now)

\* Cache.get gone wrong: an expired entry is not returned
CacheGetFresh(c, id) ==
  IF DictHas(storage[c], id) /\ ~IsExpired(DictGet(storage[c], id), now)
    THEN DictGet(storage[c], id)
    ELSE None

\* Cache.get
CacheGet(c, id) == DictGet(storage[c], id)

\* Cache.get_by_key gone wrong: is_expired is not asked
CacheGetByKeyAnyAge(c, key) ==
  LET d == storage[c]
      hits == {i \in 1..Len(d) : ItemContains(d[i].item, key)}
  IN  IF hits = {}
        THEN None
        ELSE d[CHOOSE i \in hits : \A j \in hits : i <= j].item

\* Cache.get_by_key: the first entry, in dict order, that is not expired and
\* whose value contains key
CacheGetByKey(c, key) ==
  LET d == storage[c]
      hits == {i \in 1..Len(d) :
                 ~IsExpired(d[i].item, now) /\ ItemContains(d[i].item, key)}
  IN  IF hits = {}
        THEN None
        ELSE d[CHOOSE i \in hits : \A j \in hits : i <= j].item

\* Cache.size
CacheSize(c) == Len(storage[c])

(* ---------------------------- CacheService ---------------------------- *)

\* CacheService.get gone wrong: the item, not its value
ServiceGetItem(id) == CacheGet(Svc, id)

\* CacheService.get: the value, not the item
ServiceGet(id) ==
  LET cacheitem == CacheGet(Svc, id)
  IN  IF cacheitem = None THEN None ELSE cacheitem.value

\* CacheService.get_by_key: `key not in self._storage` is Cache.__contains__
ServiceGetByKey(key) ==
  IF ~CacheContains(Svc, key) THEN None ELSE CacheGetByKey(Svc, key)

\* CacheService.last_operation_at setter: a value before the current one is
\* rejected with a warning, any other is stored; what _last_operation_at becomes
LastOperationAtSetter(current, value) ==
  IF current > value THEN current ELSE value

(* ------------------------------- state -------------------------------- *)

NoLoc == [c |-> Svc, item |-> None, tmp |-> 0]
NoTaskLoc == [wake_at |-> 0, di_used |-> 0, pos |-> 0, expired_ids |-> <<>>]
\* hist.sweep: the dict and the time when the running invalidate_expired
\* started, kept while no caller has changed the dict since (alone)
NoSweep == [snap |-> <<>>, at |-> 0, alone |-> FALSE]
\* the label of a step that returns nothing to a caller
Internal == [op |-> "step"]

Init ==
  /\ now = 0
  /\ BASE_ID = BaseId
  /\ storage = [c \in Caches |-> <<>>]
  /\ lock = [c \in Caches |-> NoThread]
  /\ pc = [t \in Callers |-> "idle"]
  /\ loc = [t \in Callers |-> NoLoc]
  /\ task_pc = "check"
  /\ task_loc = NoTaskLoc
  /\ stop_event = FALSE
  /\ last_operation_at = 0
  /\ last = Internal
  /\ hist = [ adds      |-> 0,
              returned  |-> [c \in Caches |-> <<>>],
              only_adds |-> [c \in Caches |-> TRUE],
              sweep     |-> NoSweep,
              stop_mid_sweep    |-> FALSE,
              shutdown_returned |-> FALSE ]

\* a caller changed storage[c] by something other than add
Touched(c) == [hist EXCEPT !.only_adds[c] = FALSE,
                           !.sweep = IF c = Svc THEN NoSweep ELSE @]

taskVars == <<task_pc, task_loc, last_operation_at>>

(* ------------------------------- clock -------------------------------- *)

Tick ==
  /\ now < MaxTime
  /\ now' = now + 1
  /\ last' = Internal
  /\ UNCHANGED <<BASE_ID, storage, lock, pc, loc, taskVars, stop_event, hist>>

(* ----------------------------- Cache.add ------------------------------ *)

\* with self._lock: ... CacheItemFactory.create: CacheItem(id=cls.BASE_ID, ...)
AddBegin(t, c, value, time_to_live) ==
  /\ pc[t] = "idle"
  /\ hist.adds < MaxAdds
  /\ lock[c] = NoThread
  /\ lock' = [lock EXCEPT ![c] = t]
  /\ loc' = [loc EXCEPT ![t] =
       [c |-> c, item |-> NewCacheItem(BASE_ID, time_to_live, value, now), tmp |-> 0]]
  /\ pc' = [pc EXCEPT ![t] = "add_inc_read"]
  /\ hist' = [hist EXCEPT !.adds = @ + 1]
  /\ last' = Internal
  /\ UNCHANGED <<now, BASE_ID, storage, taskVars, stop_event>>

\* cls.BASE_ID += 1: the read
AddIncRead(t) ==
  /\ pc[t] = "add_inc_read"
  /\ loc' = [loc EXCEPT ![t].tmp = BASE_ID]
  /\ pc' = [pc EXCEPT ![t] = "add_inc_write"]
  /\ last' = Internal
  /\ UNCHANGED <<now, BASE_ID, storage, lock, taskVars, stop_event, hist>>

\* cls.BASE_ID += 1: the write
AddIncWrite(t) ==
  /\ pc[t] = "add_inc_write"
  /\ BASE_ID' = loc[t].tmp + 1
  /\ pc' = [pc EXCEPT ![t] = "add_store"]
  /\ last' = Internal
  /\ UNCHANGED <<now, storage, lock, loc, taskVars, stop_event, hist>>

\* the end of add gone wrong: the lock is not released
AddStoreKeepLock(t) ==
  /\ pc[t] = "add_store"
  /\ LET c == loc[t].c
         item == loc[t].item
     IN  /\ storage' = [storage EXCEPT ![c] = DictSet(@, item.id, item)]
         /\ hist' = [hist EXCEPT !.returned[c] = Append(@, item.id),
                                  !.sweep = IF c = Svc THEN NoSweep ELSE @]
         /\ last' = [op |-> "add", c |-> c, item |-> item, id |-> item.id]
  /\ pc' = [pc EXCEPT ![t] = "idle"]
  /\ loc' = [loc EXCEPT ![t] = NoLoc]
  /\ UNCHANGED <<now, BASE_ID, lock, taskVars, stop_event>>

\* self._storage[cache_item.id] = cache_item; return cache_item.id
AddStore(t) ==
  /\ pc[t] = "add_store"
  /\ LET c == loc[t].c
         item == loc[t].item
     IN  /\ storage' = [storage EXCEPT ![c] = DictSet(@, item.id, item)]
         /\ lock' = [lock EXCEPT ![c] = NoThread]
         /\ hist' = [hist EXCEPT !.returned[c] = Append(@, item.id),
                                  !.sweep = IF c = Svc THEN NoSweep ELSE @]
         /\ last' = [op |-> "add", c |-> c, item |-> item, id |-> item.id]
  /\ pc' = [pc EXCEPT ![t] = "idle"]
  /\ loc' = [loc EXCEPT ![t] = NoLoc]
  /\ UNCHANGED <<now, BASE_ID, taskVars, stop_event>>

\* the add calls on cache c so far, returned or not
AddCalls(c) ==
  Len(hist.returned[c]) + Cardinality({u \in Callers : loc[u].item # None /\ loc[u].c = c})

\* Cache.add, at most MaxCacheAdds times on one cache
CacheAdd(t, c, value, time_to_live) ==
  /\ AddCalls(c) < MaxCacheAdds
  /\ AddBegin(t, c, value, time_to_live)

\* CacheService.add: delegates to Cache.add of its own cache
ServiceAdd(t, value, time_to_live) == CacheAdd(t, Svc, value, time_to_live)

\* CacheService.add(value), time_to_live left to its default
ServiceAddDefault(t, value) == ServiceAdd(t, value, DefaultTTL)

(* ------------------- the other, single-step methods ------------------- *)

\* what a method that only reads leaves alone
ReadOnly == UNCHANGED <<now, BASE_ID, storage, lock, pc, loc, taskVars, stop_event, hist>>

\* CacheService.get
ServiceGetCall(t, id) ==
  /\ pc[t] = "idle"
  /\ lock[Svc] = NoThread
  /\ last' = [op |-> "service_get", id |-> id, value |-> ServiceGet(id)]
  /\ ReadOnly

\* CacheService.get_by_key
ServiceGetByKeyCall(t, key) ==
  /\ pc[t] = "idle"
  /\ lock[Svc] = NoThread
  /\ last' = [op |-> "service_get_by_key", key |-> key, res |-> ServiceGetByKey(key)]
  /\ ReadOnly

\* Cache.__contains__: id in cache
ContainsCall(t, c, id) ==
  /\ pc[t] = "idle"
  /\ lock[c] = NoThread
  /\ last' = [op |-> "contains", c |-> c, id |-> id,
              found |-> CacheContains(c, IntKey(id))]
  /\ ReadOnly

\* Cache.get
GetCall(t, c, id) ==
  /\ pc[t] = "idle"
  /\ lock[c] = NoThread
  /\ last' = [op |-> "get", c |-> c, id |-> id, res |-> CacheGet(c, id)]
  /\ ReadOnly

\* Cache.get_by_key
GetByKeyCall(t, c, key) ==
  /\ pc[t] = "idle"
  /\ lock[c] = NoThread
  /\ last' = [op |-> "get_by_key", c |-> c, key |-> key, res |-> CacheGetByKey(c, key)]
  /\ ReadOnly

\* Cache.size, and CacheService.size which delegates to it: no lock is taken
SizeCall(t, c) ==
  /\ pc[t] = "idle"
  /\ last' = [op |-> "size", c |-> c, n |-> CacheSize(c)]
  /\ ReadOnly

\* Cache.remove, and CacheService.remove which delegates to it
Remove(t, c, id) ==
  /\ pc[t] = "idle"
  /\ lock[c] = NoThread
  /\ storage' = [storage EXCEPT ![c] = DictPop(@, id)]
  /\ hist' = IF DictHas(storage[c], id) THEN Touched(c) ELSE hist
  /\ last' = [op |-> "remove", c |-> c, id |-> id,
              found |-> DictHas(storage[c], id)]
  /\ UNCHANGED <<now, BASE_ID, lock, pc, loc, taskVars, stop_event>>

\* Cache.invalidate
Invalidate(t, c, id) ==
  /\ pc[t] = "idle"
  /\ lock[c] = NoThread
  /\ storage' = [storage EXCEPT ![c] = DictPop(@, id)]
  /\ hist' = IF DictHas(storage[c], id) THEN Touched(c) ELSE hist
  /\ last' = [op |-> "invalidate", c |-> c, id |-> id,
              found |-> DictHas(storage[c], id)]
  /\ UNCHANGED <<now, BASE_ID, lock, pc, loc, taskVars, stop_event>>

\* Cache.set, of a CacheItem the caller constructs
Set(t, c, id, value, time_to_live) ==
  /\ pc[t] = "idle"
  /\ lock[c] = NoThread
  /\ LET item == NewCacheItem(id, time_to_live, value, now)
     IN  /\ storage' = [storage EXCEPT ![c] = DictSet(@, item.id, item)]
         /\ last' = [op |-> "set", c |-> c, item |-> item]
  /\ hist' = Touched(c)
  /\ UNCHANGED <<now, BASE_ID, lock, pc, loc, taskVars, stop_event>>

\* cache.get(id).expires_at = value, on a stored item; CacheItem has no lock
SetExpiresAt(t, c, id, value) ==
  /\ pc[t] = "idle"
  /\ DictHas(storage[c], id)
  /\ LET item == DictGet(storage[c], id)
         r == ExpiresAtSetter(item, value)
     IN  /\ storage' = [storage EXCEPT ![c] = DictSet(@, id, r.item)]
         /\ last' = [op |-> "set_expires_at", c |-> c, id |-> id, arg |-> value,
                     before |-> item.expires_at, raised |-> r.raised]
  /\ UNCHANGED <<now, BASE_ID, lock, pc, loc, taskVars, stop_event, hist>>

\* service.last_operation_at = value
SetLastOperationAt(t, value) ==
  /\ pc[t] = "idle"
  /\ last_operation_at' = LastOperationAtSetter(last_operation_at, value)
  /\ last' = [op |-> "set_last_operation_at", arg |-> value,
              before |-> last_operation_at]
  /\ UNCHANGED <<now, BASE_ID, storage, lock, pc, loc, task_pc, task_loc,
                 stop_event, hist>>

(* ------------------------ CacheService.shutdown ----------------------- *)

\* invalidate_expired is running in the cleanup thread
MidSweep == task_pc \in {"scan", "invalidate"}

\* self._stop_event.set(); hist.stop_mid_sweep: the event was set during the
\* sweep that is running
ShutdownBegin(t) ==
  /\ pc[t] = "idle"
  /\ stop_event' = TRUE
  /\ pc' = [pc EXCEPT ![t] = "join"]
  /\ hist' = [hist EXCEPT !.stop_mid_sweep = @ \/ (~stop_event /\ MidSweep)]
  /\ last' = Internal
  /\ UNCHANGED <<now, BASE_ID, storage, lock, loc, taskVars>>

\* threading.Thread.is_alive of the cleanup thread
TaskAlive == task_pc \notin {"stopped", "dead"}

\* shutdown gone wrong: it returns without joining the thread
ShutdownNoJoin(t) ==
  /\ pc[t] = "join"
  /\ pc' = [pc EXCEPT ![t] = "idle"]
  /\ hist' = [hist EXCEPT !.shutdown_returned = TRUE]
  /\ last' = [op |-> "shutdown"]
  /\ UNCHANGED <<now, BASE_ID, storage, lock, loc, taskVars, stop_event>>

\* self._thread.join(): returns once the thread has ended
ShutdownJoin(t) ==
  /\ pc[t] = "join"
  /\ ~TaskAlive
  /\ pc' = [pc EXCEPT ![t] = "idle"]
  /\ hist' = [hist EXCEPT !.shutdown_returned = TRUE]
  /\ last' = [op |-> "shutdown"]
  /\ UNCHANGED <<now, BASE_ID, storage, lock, loc, taskVars, stop_event>>

(* ------- CacheService._periodic_cleanup, Cache.invalidate_expired ------ *)

taskFrame == <<BASE_ID, lock, pc, loc, stop_event>>

\* the loop gone wrong: while True, the stop event is never looked at
TaskCheckDeaf ==
  /\ task_pc = "check"
  /\ task_pc' = "sleep"
  /\ task_loc' = [task_loc EXCEPT !.wake_at = now + SweepInterval]
  /\ last' = Internal
  /\ UNCHANGED <<now, storage, last_operation_at, hist>>
  /\ UNCHANGED taskFrame

\* while not self._stop_event.is_set(): time.sleep(float(self._time_to_live))
TaskCheck ==
  /\ task_pc = "check"
  /\ IF stop_event
       THEN /\ task_pc' = "stopped"
            /\ UNCHANGED task_loc
       ELSE /\ task_pc' = "sleep"
            /\ task_loc' = [task_loc EXCEPT !.wake_at = now + SweepInterval]
  /\ last' = Internal
  /\ UNCHANGED <<now, storage, last_operation_at, hist>>
  /\ UNCHANGED taskFrame

\* the sleep ends (at MaxTime the clock has stopped, and the sleep ends as
\* well); invalidate_expired starts iterating self._storage.values()
TaskWake ==
  /\ task_pc = "sleep"
  /\ now >= task_loc.wake_at \/ now = MaxTime
  /\ task_pc' = "scan"
  /\ task_loc' = [task_loc EXCEPT !.di_used = Len(storage[Svc]), !.pos = 1,
                                  !.expired_ids = <<>>]
  /\ hist' = [hist EXCEPT !.sweep = [snap |-> storage[Svc], at |-> now, alone |-> TRUE]]
  /\ last' = Internal
  /\ UNCHANGED <<now, storage, last_operation_at>>
  /\ UNCHANGED taskFrame

\* the comprehension gone wrong: `if not cache_item.is_expired()`
ScanCollectInverted(ids, item) ==
  IF IsExpired(item, now) THEN ids ELSE Append(ids, item.id)

\* [cache_item.id for cache_item in ... if cache_item.is_expired()]: what one
\* item adds to expired_ids
ScanCollect(ids, item) ==
  IF IsExpired(item, now) THEN Append(ids, item.id) ELSE ids

\* one step of the list comprehension over the dict's values, outside the lock:
\* RuntimeError ("dictionary changed size during iteration", which nothing
\* catches: the thread ends) if the dict's size is not what it was when the
\* iteration began, else the next item, by position, or the end
TaskScan ==
  /\ task_pc = "scan"
  /\ LET d == storage[Svc]
         i == task_loc.pos
     IN  IF Len(d) # task_loc.di_used
           THEN /\ task_pc' = "dead"
                /\ UNCHANGED task_loc
           ELSE IF i > Len(d)
             THEN /\ task_pc' = IF Len(task_loc.expired_ids) = 0 THEN "update" ELSE "invalidate"
                  /\ UNCHANGED task_loc
             ELSE /\ task_pc' = "scan"
                  /\ task_loc' = [task_loc EXCEPT
                       !.pos = i + 1,
                       !.expired_ids = ScanCollect(@, d[i].item)]
  /\ last' = Internal
  /\ UNCHANGED <<now, storage, last_operation_at, hist>>
  /\ UNCHANGED taskFrame

\* for expired_id in expired_ids: self.invalidate(key=expired_id)
TaskInvalidate ==
  /\ task_pc = "invalidate"
  /\ lock[Svc] = NoThread
  /\ storage' = [storage EXCEPT ![Svc] = DictPop(@, Head(task_loc.expired_ids))]
  /\ task_loc' = [task_loc EXCEPT !.expired_ids = Tail(@)]
  /\ task_pc' = IF Len(task_loc.expired_ids) = 1 THEN "update" ELSE "invalidate"
  /\ last' = Internal
  /\ UNCHANGED <<now, last_operation_at, hist>>
  /\ UNCHANGED taskFrame

\* self._last_operation_at = DateUtil.now()
TaskUpdate ==
  /\ task_pc = "update"
  /\ last_operation_at' = now
  /\ task_pc' = "check"
  /\ task_loc' = NoTaskLoc
  /\ hist' = [hist EXCEPT !.sweep = NoSweep, !.stop_mid_sweep = FALSE]
  /\ last' = Internal
  /\ UNCHANGED <<now, storage>>
  /\ UNCHANGED taskFrame

(* --------------------------- specifications --------------------------- *)

AddSteps ==
  \/ \E t \in Callers : AddIncRead(t)
  \/ \E t \in Callers : AddIncWrite(t)
  \/ \E t \in Callers : AddStore(t)

\* one CacheService, its cleanup thread and its callers; Cache.set is reached
\* through CacheService.storage
Next ==
  \/ Tick
  \/ \E t \in Callers, v \in Values, ttl \in TTLs : ServiceAdd(t, v, ttl)
  \/ AddSteps
  \/ \E t \in Callers, id \in CallIds : ServiceGetCall(t, id)
  \/ \E t \in Callers, k \in StrKeys : ServiceGetByKeyCall(t, k)
  \/ \E t \in Callers : SizeCall(t, Svc)
  \/ \E t \in Callers, id \in CallIds : Remove(t, Svc, id)
  \/ \E t \in Callers : Set(t, Svc, BaseId, DictA, MaxTTL)
  \/ \E t \in Callers : ShutdownBegin(t)
  \/ \E t \in Callers : ShutdownJoin(t)
  \/ TaskCheck
  \/ TaskWake
  \/ TaskScan
  \/ TaskInvalidate
  \/ TaskUpdate

Spec == Init /\ [][Next]_vars

\* the bare Cache and its callers
NextCache ==
  \/ Tick
  \/ \E t \in Callers, v \in Values, ttl \in TTLs : CacheAdd(t, Other, v, ttl)
  \/ AddSteps
  \/ \E t \in Callers, id \in CallIds : ContainsCall(t, Other, id)
  \/ \E t \in Callers, id \in CallIds : GetCall(t, Other, id)
  \/ \E t \in Callers, k \in LookupKeys : GetByKeyCall(t, Other, k)
  \/ \E t \in Callers : SizeCall(t, Other)
  \/ \E t \in Callers, id \in CallIds : Remove(t, Other, id)
  \/ \E t \in Callers, id \in CallIds : Invalidate(t, Other, id)
  \/ \E t \in Callers, v \in Values, ttl \in TTLs : Set(t, Other, BaseId, v, ttl)

SpecCache == Init /\ [][NextCache]_vars

\* two caches, one process-wide BASE_ID
NextIds ==
  \/ \E t \in Callers, c \in Caches : AddBegin(t, c, Int42, MaxTTL)
  \/ AddSteps
  \/ \E t \in Callers, c \in Caches : SizeCall(t, c)

SpecIds == Init /\ [][NextIds]_vars

\* the entries of the bare Cache and the callers of their expires_at setter
NextItem ==
  \/ Tick
  \/ \E t \in Callers, ttl \in TTLs : CacheAdd(t, Other, Int42, ttl)
  \/ AddSteps
  \/ \E t \in Callers, id \in CallIds, v \in Times : SetExpiresAt(t, Other, id, v)

SpecItem == Init /\ [][NextItem]_vars

\* an empty CacheService (the invalidate loop of its sweeps has nothing to do),
\* its cleanup thread and the callers of its last_operation_at setter
NextClock ==
  \/ Tick
  \/ \E t \in Callers, v \in Times : SetLastOperationAt(t, v)
  \/ \E t \in Callers : ShutdownBegin(t)
  \/ \E t \in Callers : ShutdownJoin(t)
  \/ TaskCheck
  \/ TaskWake
  \/ TaskScan
  \/ TaskUpdate

SpecClock == Init /\ [][NextClock]_vars

\* a CacheService(time_to_live=SweepInterval) whose callers all add without a
\* time_to_live argument
NextDefault ==
  \/ Tick
  \/ \E t \in Callers, v \in Values : ServiceAddDefault(t, v)
  \/ AddSteps
  \/ \E t \in Callers, id \in CallIds : ServiceGetCall(t, id)
  \/ \E t \in Callers : SizeCall(t, Svc)

SpecDefault == Init /\ [][NextDefault]_vars

\* two caches, one process-wide BASE_ID, and callers that also remove from and
\* invalidate in the service's cache
NextReuse ==
  \/ \E t \in Callers, c \in Caches : AddBegin(t, c, Int42, MaxTTL)
  \/ AddSteps
  \/ \E t \in Callers, id \in CallIds : Remove(t, Svc, id)
  \/ \E t \in Callers, id \in CallIds : Invalidate(t, Svc, id)

SpecReuse == Init /\ [][NextReuse]_vars

\* Spec without the calls that only read, and with one value (the cleanup never
\* looks at values): what the liveness properties are checked on
NextLive ==
  \/ Tick
  \/ \E t \in Callers, ttl \in TTLs : ServiceAdd(t, DictA, ttl)
  \/ AddSteps
  \/ \E t \in Callers, id \in CallIds : Remove(t, Svc, id)
  \/ \E t \in Callers : Set(t, Svc, BaseId, DictA, MaxTTL)
  \/ \E t \in Callers : ShutdownBegin(t)
  \/ \E t \in Callers : ShutdownJoin(t)
  \/ TaskCheck
  \/ TaskWake
  \/ TaskScan
  \/ TaskInvalidate
  \/ TaskUpdate

\* fair scheduling: time advances, a thread inside a method goes on, and a
\* thread waiting for the lock gets it if it is free again and again
Fairness ==
  /\ WF_vars(Tick)
  /\ WF_vars(AddSteps)
  /\ WF_vars(TaskCheck)
  /\ WF_vars(TaskWake)
  /\ WF_vars(TaskScan)
  /\ SF_vars(TaskInvalidate)
  /\ WF_vars(TaskUpdate)
  /\ \A t \in Callers : WF_vars(ShutdownJoin(t))

FairSpec == Init /\ [][NextLive]_vars /\ Fairness

(* ------------------------------ properties ---------------------------- *)

\* the entries of dict d that are not expired at time t, whose value contains key
Matches(d, key, t) ==
  {d[i].item : i \in {j \in 1..Len(d) :
                        ~IsExpired(d[j].item, t) /\ ItemContains(d[j].item, key)}}

\* C1: in the state CacheService.add returns in, with no time elapsed since the
\* item was created, CacheService.get of the returned id gives the value added
\* and the stored item is not expired.
AddThenGet ==
  (last.op = "add" /\ last.c = Svc /\ now = last.item.created_at) =>
     /\ ServiceGet(last.id) = last.item.value
     /\ CacheGet(Svc, last.id) # None
     /\ ~IsExpired(CacheGet(Svc, last.id), now)

AddThenGetWitness ==
  /\ last.op = "add" /\ last.c = Svc /\ now = last.item.created_at
  /\ last.item.value = DictA
  /\ Len(storage[Svc]) = 2

\* C2: two callers inside add at the same time never hold items with the same id.
ConcurrentAddsDistinctIds ==
  \A t1, t2 \in Callers :
    (t1 # t2 /\ loc[t1].item # None /\ loc[t2].item # None) =>
       loc[t1].item.id # loc[t2].item.id

\* C3: on a cache that only add has changed, size() is the number of add calls
\* that have returned.
SizeEqualsAdds ==
  (last.op = "size" /\ hist.only_adds[last.c]) =>
     last.n = Len(hist.returned[last.c])

\* C4: on a service whose entries all come from add, CacheService.get_by_key(key)
\* returns a stored, not expired entry whose value contains key when there is
\* one (after add({"a": 1}), "a" finds it), and None when there is none ("b").
ServiceGetByKeyFinds ==
  (last.op = "service_get_by_key" /\ hist.only_adds[Svc]) =>
     IF Matches(storage[Svc], last.key, now) = {}
       THEN last.res = None
       ELSE last.res \in Matches(storage[Svc], last.key, now)

\* C5: Cache.get_by_key(key) returns None only if no stored, not expired entry's
\* value contains key, and otherwise such an entry: never an expired one.
GetByKeyNeverExpired ==
  (last.op = "get_by_key") =>
     IF Matches(storage[last.c], last.key, now) = {}
       THEN last.res = None
       ELSE last.res \in Matches(storage[last.c], last.key, now)

GetByKeyNeverExpiredWitness ==
  /\ last.op = "get_by_key"
  /\ last.res # None
  /\ \E i \in 1..Len(storage[last.c]) :
       /\ IsExpired(storage[last.c][i].item, now)
       /\ ItemContains(storage[last.c][i].item, last.key)

\* C6: when invalidate_expired has run with no caller changing the dict
\* meanwhile, the dict holds what it held at the call, in the same order, less
\* entries removed; every entry expired at the call is removed and every entry
\* not expired at the return is kept (so with none expired nothing changes);
\* and the run did not end in an error.
InvalidateExpiredAlone ==
  LET snap == hist.sweep.snap
      d == storage[Svc]
      Kept(e) == \E i \in 1..Len(d) : d[i] = e
  IN  /\ (task_pc = "update" /\ hist.sweep.alone) =>
            /\ d = SelectSeq(snap, Kept)
            /\ \A i \in 1..Len(snap) :
                 /\ IsExpired(snap[i].item, hist.sweep.at) => ~Kept(snap[i])
                 /\ ~IsExpired(snap[i].item, now) => Kept(snap[i])
      /\ task_pc = "dead" => ~hist.sweep.alone

InvalidateExpiredAloneWitness ==
  /\ task_pc = "update"
  /\ hist.sweep.alone
  /\ Len(storage[Svc]) = 1
  /\ Len(hist.sweep.snap) = 2

\* C7: while the stop event is not set, an entry stored and expired does not
\* stay so for ever: the cleanup thread removes it.
ExpiredEventuallySwept ==
  \A id \in CallIds :
    (/\ DictHas(storage[Svc], id)
     /\ IsExpired(DictGet(storage[Svc], id), now)
     /\ ~stop_event)
    ~> (\/ ~DictHas(storage[Svc], id)
        \/ ~IsExpired(DictGet(storage[Svc], id), now)
        \/ stop_event)

\* C8: a caller inside shutdown() gets out of it, and at the return the cleanup
\* thread has ended.
ShutdownTerminates ==
  /\ \A t \in Callers : (pc[t] = "join") ~> (pc[t] = "idle")
  /\ [](last.op = "shutdown" => ~TaskAlive)

ShutdownTerminatesWitness ==
  /\ last.op = "shutdown"
  /\ task_pc = "stopped"
  /\ last_operation_at > 0

\* C9: once shutdown() has returned the cleanup thread is not alive, whatever is
\* called afterwards: no sweep runs.
NoSweepAfterShutdown ==
  hist.shutdown_returned => (~TaskAlive /\ task_pc \notin {"scan", "invalidate"})

NoSweepAfterShutdownWitness ==
  /\ hist.shutdown_returned
  /\ last.op = "add"

\* C10: remove and invalidate of an id that is not stored leave the dict, and so
\* size(), as they are, however often they are called.
AbsentRemoveNoChange ==
  [][(last'.op \in {"remove", "invalidate"} /\ ~last'.found) =>
       (storage' = storage /\ Len(storage'[last'.c]) = CacheSize(last'.c))]_vars

AbsentRemoveNoChangeWitness ==
  /\ last.op = "invalidate"
  /\ ~last.found
  /\ Len(storage[last.c]) > 0

\* C11: storage is read and written only by a thread that holds the cache lock:
\* no step changes the service's dict while the cleanup thread iterates it, and
\* size() reads the dict only when no other thread is inside a critical section.
StorageOnlyUnderLock ==
  [][/\ (task_pc = "scan") => (storage'[Svc] = storage[Svc])
     /\ (last'.op = "size" /\ last' # last) => (lock[last'.c] = NoThread)]_vars

\* C12: the expires_at setter, given a value earlier than the current
\* expires_at, raises nothing and leaves expires_at as it is; given any other
\* value it raises nothing and expires_at becomes that value.
SetExpiresAtContract ==
  [][(last'.op = "set_expires_at") =>
       LET new == DictGet(storage'[last'.c], last'.id).expires_at
       IN  /\ ~last'.raised
           /\ new = IF last'.arg < last'.before THEN last'.before ELSE last'.arg]_vars

\* C13: every stored entry has expires_at >= created_at, and no step makes the
\* expires_at of an entry smaller.
ExpiresAtMonotone ==
  /\ [](\A c \in Caches : \A i \in 1..Len(storage[c]) :
          storage[c][i].item.expires_at >= storage[c][i].item.created_at)
  /\ [][\A c \in Caches : \A id \in CallIds :
          (DictHas(storage[c], id) /\ DictHas(storage'[c], id)) =>
             DictGet(storage'[c], id).expires_at >= DictGet(storage[c], id).expires_at]_vars

\* C14: the cleanup thread starts a sweep after its sleep only if the stop
\* event is not set.
NoSweepStartsAfterStop ==
  [][(task_pc = "sleep" /\ task_pc' = "scan") => ~stop_event]_vars

\* C15: the cleanup thread ends only by seeing the stop event set: no step ends
\* it while the event is unset, and none ends it in an error.
TaskEndsOnlyOnStop ==
  [][(TaskAlive /\ ~TaskAlive') => (stop_event /\ task_pc' = "stopped")]_vars

\* C16: when the stop event was set during a running sweep, the cleanup thread
\* goes on to the end of that sweep (it is in the scan, in the invalidate loop
\* or past it with no id left to invalidate, never ended in an error), and every
\* stored entry is stored once, under its own id.
ShutdownMidSweepCompletes ==
  /\ hist.stop_mid_sweep =>
       /\ task_pc \in {"scan", "invalidate", "update"}
       /\ task_pc = "update" => task_loc.expired_ids = <<>>
  /\ \A i, j \in 1..Len(storage[Svc]) :
       /\ storage[Svc][i].key = storage[Svc][i].item.id
       /\ (storage[Svc][i].key = storage[Svc][j].key) => i = j

IdsIncreasePerCache ==
  /\ [](\A c \in Caches : \A i, j \in 1..Len(hist.returned[c]) :
          i < j => hist.returned[c][i] < hist.returned[c][j])
  /\ [][BASE_ID' >= BASE_ID]_vars

\* C19: no step makes the service's last_operation_at smaller: the end of a
\* sweep sets it to the current time, and the setter leaves it as it is when
\* given an earlier value and stores any other.
LastOperationAtMonotone ==
  [][/\ last_operation_at' >= last_operation_at
     /\ (last'.op = "set_last_operation_at" /\ last' # last) =>
          last_operation_at' =
            IF last'.arg < last'.before THEN last'.before ELSE last'.arg
     /\ (task_pc = "update" /\ task_pc' = "check") => last_operation_at' = now]_vars

\* C20: Cache.get(id) changes nothing and returns the entry stored under id,
\* expired or not, and None when none is stored; the entry, expired or not, is
\* still stored and counted by size() afterwards.
GetIsPureLookup ==
  [][(last'.op = "get") =>
       LET d == storage[last'.c]
           stored == {i \in 1..Len(d) : d[i].key = last'.id}
       IN  /\ storage' = storage
           /\ stored = {} => last'.res = None
           /\ \A i \in stored : last'.res = d[i].item /\ last'.res.id = last'.id
           /\ Len(storage'[last'.c]) = CacheSize(last'.c)]_vars

GetIsPureLookupWitness ==
  /\ last.op = "get"
  /\ last.res # None
  /\ IsExpired(last.res, now)
  /\ CacheSize(last.c) = 2

\* C21: `id in cache` changes nothing and is True exactly when an entry is
\* stored under id and now <= its expires_at (at now = expires_at it is not
\* expired).
ContainsIffStoredAndFresh ==
  [][(last'.op = "contains") =>
       LET d == storage[last'.c]
       IN  /\ storage' = storage
           /\ now' = now
           /\ last'.found =
                (\E i \in 1..Len(d) :
                   d[i].key = last'.id /\ now <= d[i].item.expires_at)]_vars

ContainsIffStoredAndFreshWitness ==
  /\ last.op = "contains"
  /\ last.found
  /\ now > 0
  /\ DictGet(storage[last.c], last.id).expires_at = now

\* C22: Cache.set(entry) stores entry under entry.id and touches nothing else:
\* afterwards get(entry.id) is entry, every other id maps to what it mapped to,
\* size() is one more if the id was absent and the same otherwise, and setting
\* the same entry again changes nothing; and every stored entry is stored once,
\* under its own id.
SetIsIdempotentUpsert ==
  /\ [][(last'.op = "set") =>
          LET c == last'.c
              e == last'.item
          IN  /\ DictGet(storage'[c], e.id) = e
              /\ \A k \in (CallIds \ {e.id}) :
                   DictGet(storage'[c], k) = DictGet(storage[c], k)
              /\ Len(storage'[c]) =
                   IF DictHas(storage[c], e.id) THEN CacheSize(c) ELSE CacheSize(c) + 1
              /\ DictSet(storage'[c], e.id, e) = storage'[c]
              /\ \A o \in (Caches \ {c}) : storage'[o] = storage[o]]_vars
  /\ [](\A c \in Caches : \A i, j \in 1..Len(storage[c]) :
          /\ storage[c][i].key = storage[c][i].item.id
          /\ (storage[c][i].key = storage[c][j].key) => i = j)

\* a set that replaced the older of two entries
SetIsIdempotentUpsertWitness ==
  /\ last.op = "set"
  /\ Len(storage[last.c]) = 2
  /\ storage[last.c][1].item = last.item
  /\ storage[last.c][2].item.created_at < last.item.created_at

\* C23: on a service constructed with time_to_live = SweepInterval, an entry
\* added without a time_to_live argument (every add of SpecDefault) has
\* expires_at = created_at + SweepInterval.
DefaultLifetimeIsServiceTTL ==
  (last.op = "add" /\ last.c = Svc) =>
     last.item.expires_at = last.item.created_at + SweepInterval

\* C24: a sweep removes only expired entries: the entry a step of the sweep's
\* invalidate loop pops is expired at that moment, whatever callers have stored
\* under its id since the scan.
SweepRemovesOnlyExpired ==
  [][(task_pc = "invalidate" /\ task_loc' # task_loc) =>
       LET id == Head(task_loc.expired_ids)
       IN  DictHas(storage[Svc], id) =>
             IsExpired(DictGet(storage[Svc], id), now)]_vars

\* C25: remove and invalidate of a stored id take away that entry and nothing
\* else (the id is absent afterwards, the dict is one shorter, every other id
\* maps to what it mapped to), and no add returns an id that an earlier add on
\* the same cache returned and that has been removed since.
RemoveExactlyThatEntry ==
  [][/\ (last'.op \in {"remove", "invalidate"} /\ last'.found) =>
          LET c == last'.c
          IN  /\ ~DictHas(storage'[c], last'.id)
              /\ Len(storage'[c]) = CacheSize(c) - 1
              /\ \A k \in (BaseId..(BaseId + MaxAdds)) \ {last'.id} :
                   DictGet(storage'[c], k) = DictGet(storage[c], k)
     /\ (last'.op = "add") =>
          LET c == last'.c
              removed == {hist.returned[c][i] : i \in 1..Len(hist.returned[c])}
                           \ {storage[c][i].key : i \in 1..Len(storage[c])}
          IN  last'.id \notin removed]_vars

=============================================================================
